---- MODULE Spec2Model ----
(***************************************************************************)
(* datashark-processors-independent: the extractor, hasher and yara        *)
(* processors, and the module-level path traversal check of the extractor. *)
(*                                                                         *)
(* One run of one processor is modelled per behaviour: Init chooses the    *)
(* task and its inputs (arguments and the part of the file system the run  *)
(* looks at), the actions are the statements of the task's _run method.    *)
(*                                                                         *)
(* Strings the code takes apart (member names, file names) are tuples of   *)
(* one-character strings; strings the code only compares or copies are     *)
(* TLA+ strings.                                                           *)
(***************************************************************************)
EXTENDS Integers, Sequences, FiniteSets, TLC

\* ------------------------------------------------------------------ bounds
MaxNameLen == 4        \* longest member name given to the traversal check
MaxMembers == 2        \* most members of an archive
MaxTokens == 2         \* most comma separated tokens of the 'hashers' value
MaxEntries == 2        \* most entries below a hashed directory
MaxSetOptions == 2     \* most optional yara arguments that carry a value

\* ----------------------------------------------------------------- helpers
Range(s) == {s[i] : i \in 1..Len(s)}

SeqsUpTo(S, n) == UNION {[1..k -> S] : k \in 0..n}

\* every ordering of the finite set S (iteration order of a Python set, of
\* Path.rglob, of the caller's argument list)
Perms(S) == {s \in [1..Cardinality(S) -> S] : Range(s) = S}

RECURSIVE Flatten(_)
Flatten(ss) == IF ss = <<>> THEN <<>> ELSE Head(ss) \o Flatten(Tail(ss))

None == "None"

\* an output file that does not exist
NoFile == [exists |-> FALSE, header |-> <<>>, rows |-> <<>>]

\* the streams and exit status of a child that has not exited
NoOutput == [stdout |-> None, stderr |-> None, status |-> 0]

\* ------------------------------------------------- extractor.py: the guard
NameChars == {"/", ".", "a"}

RECURSIVE SplitFrom(_, _, _)
\* str.split('/') of s[i..], cur being the piece read so far
SplitFrom(s, i, cur) ==
    IF i > Len(s) THEN <<cur>>
    ELSE IF s[i] = "/" THEN <<cur>> \o SplitFrom(s, i + 1, <<>>)
    ELSE SplitFrom(s, i + 1, Append(cur, s[i]))

\* PurePosixPath.is_absolute(): the path has a root
is_absolute(name) == Len(name) >= 1 /\ name[1] = "/"

KeptPart(seg) == seg # <<>> /\ seg # <<".">>

\* PurePosixPath.parts: the root (if any), then the components with empty
\* and '.' components dropped; '..' components are kept
parts(name) ==
    LET root == IF ~is_absolute(name) THEN <<>>
                ELSE IF Len(name) >= 2 /\ name[2] = "/"
                        /\ ~(Len(name) >= 3 /\ name[3] = "/")
                     THEN << <<"/", "/">> >>
                     ELSE << <<"/">> >>
    IN root \o SelectSeq(SplitFrom(name, 1, <<>>), KeptPart)

\* faulty variant: only a leading '..' component is looked at
check_path_traversal_first_part(name) ==
    IF is_absolute(name) THEN [flag |-> TRUE, warning |-> <<"absolute", name>>]
    ELSE IF parts(name) # <<>> /\ parts(name)[1] = <<".", ".">>
         THEN [flag |-> TRUE, warning |-> <<"relative", name>>]
         ELSE [flag |-> FALSE, warning |-> <<>>]

\* __check_path_traversal(name): the returned flag and the warning logged
check_path_traversal(name) ==
    IF is_absolute(name) THEN [flag |-> TRUE, warning |-> <<"absolute", name>>]
    ELSE IF <<".", ".">> \in Range(parts(name))
         THEN [flag |-> TRUE, warning |-> <<"relative", name>>]
         ELSE [flag |-> FALSE, warning |-> <<>>]

\* --------------------------------------------------------------- variables
VARIABLES
    task,          \* "guard", "extract", "hash" or "scan"
    pc,            \* position in the task's code, "done" or "error"
    err,           \* message of the exception that ended the run, or None
    log,           \* LOGGER.warning calls so far
    coros,         \* coroutine objects created and never awaited
    \* guard
    gname,         \* the name passed to __check_path_traversal
    gresult,       \* <<its return value>>, <<>> before the call
    \* extractor
    archive,       \* [exists, suffix, members]: the file at archive_path
    password,      \* the 'password' argument, then its encoded form
    outDir,        \* TRUE iff output_dir exists
    disk,          \* member names written below output_dir
    \* hasher
    workdirOk,     \* workdir.is_dir()
    hargs,         \* names of the arguments, in the order supplied
    hvalue,        \* the 'hashers' value, split at ','
    harg,          \* index of the next argument the loop looks at
    hashers,       \* the local 'hashers', <<>> while it is None
    target,        \* [kind, path, entries]: what filepath names
    inspected,     \* paths of input files stat'ed or opened so far
    outFile,       \* output_file: [exists, header, rows]
    outParent,     \* TRUE iff output_file.parent exists
    files,         \* the 'files' iterable, as a sequence
    fidx,          \* index of the next element of files
    fpath,         \* the local 'fpath', <<>> before it is assigned
    \* yara
    platform,      \* platform.system()
    binaryOk,      \* the configured yara binary can be started
    sargs,         \* argument name -> value
    inputsExist,   \* [rules, filepath]: do the input paths exist
    cmdline,       \* arguments handed to the subprocess, <<>> before
    child,         \* "none", "running" or "exited"
    childOut,      \* [stdout, stderr, status] of the exited child
    captured,      \* what _handle_communicating_process returned
    reportParent,  \* TRUE iff output.parent exists
    reportWrites,  \* number of writes of the output file
    reportFile     \* content of the output file, None if absent

commonVars == <<task, pc, err, log, coros>>
guardVars == <<gname, gresult>>
extractVars == <<archive, password, outDir, disk>>
hashVars == <<workdirOk, hargs, hvalue, harg, hashers, target, inspected,
              outFile, outParent, files, fidx, fpath>>
scanVars == <<platform, binaryOk, sargs, inputsExist, cmdline, child,
              childOut, captured, reportParent, reportWrites, reportFile>>
vars == <<commonVars, guardVars, extractVars, hashVars, scanVars>>

\* -------------------------------------------------------------- idle values
\* the variables of the tasks that are not running keep these values
IdleGuard == gname = <<>> /\ gresult = <<>>

IdleExtract ==
    /\ archive = [exists |-> FALSE, suffix |-> ".tar", members |-> <<>>]
    /\ password = None
    /\ outDir = FALSE
    /\ disk = {}

IdleHash ==
    /\ workdirOk = TRUE
    /\ hargs = <<>>
    /\ hvalue = <<>>
    /\ harg = 1
    /\ hashers = <<>>
    /\ target = [kind |-> "missing", path |-> <<>>, entries |-> {}]
    /\ inspected = {}
    /\ outFile = NoFile
    /\ outParent = FALSE
    /\ files = <<>>
    /\ fidx = 1
    /\ fpath = <<>>

IdleScan ==
    /\ platform = "Linux"
    /\ binaryOk = TRUE
    /\ sargs = <<>>
    /\ inputsExist = [rules |-> TRUE, filepath |-> TRUE]
    /\ cmdline = <<>>
    /\ child = "none"
    /\ childOut = NoOutput
    /\ captured = NoOutput
    /\ reportParent = TRUE
    /\ reportWrites = 0
    /\ reportFile = None

InitCommon(t) ==
    /\ task = t
    /\ pc = "start"
    /\ err = None
    /\ log = <<>>
    /\ coros = <<>>

\* ------------------------------------------------------------- guard task
Names == SeqsUpTo(NameChars, MaxNameLen)

InitGuard ==
    /\ InitCommon("guard")
    /\ gname \in Names
    /\ gresult = <<>>
    /\ IdleExtract /\ IdleHash /\ IdleScan

\* a call of __check_path_traversal(gname)
CheckPathTraversal ==
    /\ task = "guard" /\ pc = "start"
    /\ LET r == check_path_traversal(gname)
       IN /\ gresult' = <<r.flag>>
          /\ log' = IF r.warning = <<>> THEN log ELSE Append(log, r.warning)
    /\ pc' = "done"
    /\ UNCHANGED <<task, err, coros, gname, extractVars, hashVars, scanVars>>

\* --------------------------------------------------------- extractor task
ArchiveNames ==
    { <<"a">>, <<"a", "/", "a">>, <<".", ".", "/", "a">>, <<"/", "a">> }

InitExtract ==
    /\ InitCommon("extract")
    /\ \E e \in BOOLEAN, sfx \in {".zip", ".tar"} :
         \E m \in (IF e THEN SeqsUpTo(ArchiveNames, MaxMembers) ELSE {<<>>}) :
            archive = [exists |-> e, suffix |-> sfx, members |-> m]
    /\ password \in {None, "", "pw"}
    /\ outDir = FALSE
    /\ disk = {}
    /\ IdleGuard /\ IdleHash /\ IdleScan

\* str.encode()
encode(s) == IF s = "pw" THEN "b'pw'" ELSE s

\* _run, lines 79-81: the password is encoded when it is truthy
ExtractEncodePassword ==
    /\ task = "extract" /\ pc = "start"
    /\ password' = IF password # None /\ password # ""
                   THEN encode(password) ELSE password
    /\ pc' = "check_archive"
    /\ UNCHANGED <<task, err, log, coros, archive, outDir, disk,
                   guardVars, hashVars, scanVars>>

\* _run, lines 83-87: a missing archive ends the run
ExtractCheckArchive ==
    /\ task = "extract" /\ pc = "check_archive"
    /\ IF ~archive.exists
       THEN pc' = "error" /\ err' = "archive not found!"
       ELSE pc' = "mkdir" /\ err' = err
    /\ UNCHANGED <<task, log, coros, extractVars, guardVars, hashVars,
                   scanVars>>

\* _run, lines 89-93: output_dir.mkdir(parents=True, exist_ok=True)
ExtractMkdir ==
    /\ task = "extract" /\ pc = "mkdir"
    /\ outDir' = TRUE
    /\ pc' = "dispatch"
    /\ UNCHANGED <<task, err, log, coros, archive, password, disk,
                   guardVars, hashVars, scanVars>>

\* _run, lines 95-98: __process_zip / __process_tar are coroutine functions
\* and the call is not awaited, so the call only creates a coroutine object;
\* its body (the loop over the members) is never executed and _run returns.
ExtractDispatch ==
    /\ task = "extract" /\ pc = "dispatch"
    /\ coros' = Append(coros,
                       IF archive.suffix = ".zip"
                       THEN [fn |-> "__process_zip", awaited |-> FALSE]
                       ELSE [fn |-> "__process_tar", awaited |-> FALSE])
    /\ pc' = "done"
    /\ UNCHANGED <<task, err, log, extractVars, guardVars, hashVars,
                   scanVars>>

\* ------------------------------------------------------------ hasher task
\* the part of hashlib.algorithms_guaranteed the model requests from
algorithms_guaranteed == {"md5", "sha1", "sha256"}

\* the tokens a 'hashers' value is made of
Tokens == algorithms_guaranteed \cup {"bogus", ""}

\* the code points of a token, which is what Python compares strings by
CodePoints(h) ==
    CASE h = "md5" -> <<109, 100, 53>>
      [] h = "sha1" -> <<115, 104, 97, 49>>
      [] h = "sha256" -> <<115, 104, 97, 50, 53, 54>>
      [] h = "bogus" -> <<98, 111, 103, 117, 115>>
      [] OTHER -> <<>>

RECURSIVE LexLess(_, _)
\* a < b for two sequences of code points
LexLess(a, b) ==
    IF b = <<>> THEN FALSE
    ELSE IF a = <<>> THEN TRUE
    ELSE IF Head(a) # Head(b) THEN Head(a) < Head(b)
    ELSE LexLess(Tail(a), Tail(b))

StrLess(x, y) == LexLess(CodePoints(x), CodePoints(y))

RECURSIVE Insert(_, _)
Insert(x, s) ==
    IF s = <<>> THEN <<x>>
    ELSE IF StrLess(Head(s), x) THEN <<Head(s)>> \o Insert(x, Tail(s))
    ELSE <<x>> \o s

RECURSIVE sorted(_)
\* sorted(list of str)
sorted(s) == IF s = <<>> THEN <<>> ELSE Insert(Head(s), sorted(Tail(s)))

\* new_md(hasher) fed the whole of a file, then hexdigest()
hexdigest(hasher, file) == <<"hex", hasher, file>>

\* __process_file(hashers, filepath), when it is run to completion
process_file(hs, file) ==
    LET md_dct == [h \in Range(hs) |-> hexdigest(h, file)]
    IN [i \in 1..Len(sorted(hs)) |-> md_dct[sorted(hs)[i]]]

\* faulty variant: the header lists the algorithms in the order of the list
headers_unsorted(hs) == hs \o <<"filepath">>

\* _run, line 90: the columns of the header line
headers(hs) == sorted(hs) \o <<"filepath">>

\* Path.name: the final component
name(path) == path[Len(path)]

\* the 1-based index of the last '.' of n, 0 if there is none
LastDot(n) ==
    IF \E i \in 1..Len(n) : n[i] = "."
    THEN CHOOSE i \in 1..Len(n) :
            n[i] = "." /\ \A j \in (i + 1)..Len(n) : n[j] # "."
    ELSE 0

\* Path.stem: the final component without its last suffix
stem(path) ==
    LET n == name(path)
        i == LastDot(n)
    IN IF 1 < i /\ i < Len(n) THEN SubSeq(n, 1, i - 1) ELSE n

\* Path.relative_to(root), for a path below root
relative_to(path, root) == SubSeq(path, Len(root) + 1, Len(path))

\* prepend_workdir: the directory the relative paths are resolved in
Workdir == << <<"w">> >>

\* the names a hashed single file may have
FileNames == { <<"f">>, <<"f", ".", "t">>, <<".", "f">> }

\* the directory filepath names in directory mode
ScanRoot == Workdir \o << <<"i", "n">> >>

\* the entries that may exist below ScanRoot
EntryPool ==
    { [path |-> ScanRoot \o << <<"f", ".", "t">> >>, kind |-> "file"],
      [path |-> ScanRoot \o << <<"d">> >>, kind |-> "dir"],
      [path |-> ScanRoot \o << <<"d">>, <<"g">> >>, kind |-> "file"],
      [path |-> ScanRoot \o << <<"s">> >>, kind |-> "socket"] }

\* an entry exists only in a directory that exists
ParentsPresent(es) ==
    \A e \in es : Len(e.path) > Len(ScanRoot) + 1 =>
        \E d \in es : d.kind = "dir" /\ d.path = SubSeq(e.path, 1, Len(e.path) - 1)

Trees == {es \in SUBSET EntryPool :
            Cardinality(es) <= MaxEntries /\ ParentsPresent(es)}

Targets ==
    {[kind |-> "missing", path |-> Workdir \o << <<"f">> >>, entries |-> {}]}
    \cup {[kind |-> "file", path |-> Workdir \o <<n>>, entries |-> {}] :
            n \in FileNames}
    \cup {[kind |-> "dir", path |-> ScanRoot, entries |-> es] : es \in Trees}

\* Path.is_file()
is_file(p) ==
    \/ target.kind = "file" /\ p = target.path
    \/ \E e \in target.entries : e.path = p /\ e.kind = "file"

HashArgNames == {"hashers", "filepath", "output_file"}

InitHash ==
    /\ InitCommon("hash")
    /\ workdirOk \in BOOLEAN
    /\ hargs \in Perms(HashArgNames)
    /\ hvalue \in SeqsUpTo(Tokens, MaxTokens) \ {<<>>}
    /\ harg = 1
    /\ hashers = <<>>
    /\ target \in Targets
    /\ inspected = {}
    /\ outFile = NoFile
    /\ outParent = FALSE
    /\ files = <<>>
    /\ fidx = 1
    /\ fpath = <<>>
    /\ IdleGuard /\ IdleExtract /\ IdleScan

\* _run, lines 63-65
HashCheckWorkdir ==
    /\ task = "hash" /\ pc = "start"
    /\ IF ~workdirOk
       THEN pc' = "error" /\ err' = "agent-side workdir not found!"
       ELSE pc' = "args" /\ err' = err
    /\ UNCHANGED <<task, log, coros, hashVars, guardVars, extractVars,
                   scanVars>>

\* _run, lines 70-85: one iteration of the loop over the arguments
HashArgument ==
    /\ task = "hash" /\ pc = "args" /\ harg <= Len(hargs)
    /\ \/ /\ hargs[harg] = "hashers"
          /\ LET valid == Range(hvalue) \cap algorithms_guaranteed
             IN IF valid = {}
                THEN /\ pc' = "error"
                     /\ err' = "failed to find a valid hasher!"
                     /\ UNCHANGED <<hashers, harg>>
                ELSE /\ hashers' \in Perms(valid)
                     /\ harg' = harg + 1
                     /\ UNCHANGED <<pc, err>>
          /\ UNCHANGED inspected
       \/ /\ hargs[harg] = "filepath"
          /\ inspected' = inspected \cup {target.path}
          /\ IF target.kind = "missing"
             THEN /\ pc' = "error"
                  /\ err' = "filepath not found!"
                  /\ UNCHANGED harg
             ELSE /\ harg' = harg + 1
                  /\ UNCHANGED <<pc, err>>
          /\ UNCHANGED hashers
       \/ /\ hargs[harg] = "output_file"
          /\ harg' = harg + 1
          /\ UNCHANGED <<pc, err, hashers, inspected>>
    /\ UNCHANGED <<task, log, coros, workdirOk, hargs, hvalue, target,
                   outFile, outParent, files, fidx, fpath, guardVars,
                   extractVars, scanVars>>

\* _run, lines 87-88: the parent directories and the output file are created
HashCreateOutput ==
    /\ task = "hash" /\ pc = "args" /\ harg > Len(hargs)
    /\ outParent' = TRUE
    /\ outFile' = [exists |-> TRUE, header |-> <<>>, rows |-> <<>>]
    /\ pc' = "header"
    /\ UNCHANGED <<task, err, log, coros, workdirOk, hargs, hvalue, harg,
                   hashers, target, inspected, files, fidx, fpath, guardVars,
                   extractVars, scanVars>>

\* _run, lines 90-91
HashWriteHeader ==
    /\ task = "hash" /\ pc = "header"
    /\ outFile' = [outFile EXCEPT !.header = headers(hashers)]
    /\ pc' = "list"
    /\ UNCHANGED <<task, err, log, coros, workdirOk, hargs, hvalue, harg,
                   hashers, target, inspected, outParent, files, fidx, fpath,
                   guardVars, extractVars, scanVars>>

\* _run, lines 93-97: the file itself, or what rglob('*') yields, in the
\* order the file system lists it
HashListFiles ==
    /\ task = "hash" /\ pc = "list"
    /\ inspected' = inspected \cup {target.path}
    /\ IF target.kind = "dir"
       THEN files' \in Perms({e.path : e \in target.entries})
       ELSE files' = <<target.path>>
    /\ fidx' = 1
    /\ pc' = "loop"
    /\ UNCHANGED <<task, err, log, coros, workdirOk, hargs, hvalue, harg,
                   hashers, target, outFile, outParent, fpath, guardVars,
                   extractVars, scanVars>>

\* _run, lines 99-108: one iteration of the loop over the files.  For a
\* regular file fpath is computed, then __process_file, a coroutine
\* function, is called without await: ','.join is handed a coroutine object
\* and raises TypeError, which ends the run before the row is written.
HashFile ==
    /\ task = "hash" /\ pc = "loop" /\ fidx <= Len(files)
    /\ inspected' = inspected \cup {files[fidx]}
    /\ IF ~is_file(files[fidx])
       THEN /\ fidx' = fidx + 1
            /\ UNCHANGED <<pc, err, coros, fpath>>
       ELSE /\ fpath' = IF target.kind = "dir"
                        THEN relative_to(files[fidx], target.path)
                        ELSE <<stem(files[fidx])>>
            /\ coros' = Append(coros, [fn |-> "__process_file",
                                       awaited |-> FALSE])
            /\ pc' = "error"
            /\ err' = "TypeError: can only join an iterable"
            /\ UNCHANGED fidx
    /\ UNCHANGED <<task, log, workdirOk, hargs, hvalue, harg, hashers,
                   target, outFile, outParent, files, guardVars, extractVars,
                   scanVars>>

\* _run, line 88: the end of the 'async with' block after the last file
HashClose ==
    /\ task = "hash" /\ pc = "loop" /\ fidx > Len(files)
    /\ pc' = "done"
    /\ UNCHANGED <<task, err, log, coros, hashVars, guardVars, extractVars,
                   scanVars>>

\* -------------------------------------------------------------- yara task
\* YaraProcessor.ARGUMENTS: name and kind of each declared argument
ARGUMENTS ==
    << [name |-> "compiled_rules", kind |-> "BOOL"],
       [name |-> "count", kind |-> "BOOL"],
       [name |-> "define", kind |-> "STR"],
       [name |-> "fast_scan", kind |-> "BOOL"],
       [name |-> "identifier", kind |-> "STR"],
       [name |-> "max_rules", kind |-> "INT"],
       [name |-> "negate", kind |-> "BOOL"],
       [name |-> "print_meta", kind |-> "BOOL"],
       [name |-> "print_module", kind |-> "BOOL"],
       [name |-> "print_namespace", kind |-> "BOOL"],
       [name |-> "print_stats", kind |-> "BOOL"],
       [name |-> "print_strings", kind |-> "BOOL"],
       [name |-> "print_string_length", kind |-> "BOOL"],
       [name |-> "print_tags", kind |-> "BOOL"],
       [name |-> "recursive", kind |-> "BOOL"],
       [name |-> "scan_list", kind |-> "BOOL"],
       [name |-> "stack", kind |-> "INT"],
       [name |-> "tag", kind |-> "STR"],
       [name |-> "threads", kind |-> "INT"],
       [name |-> "timeout", kind |-> "INT"],
       [name |-> "rules", kind |-> "PATH"],
       [name |-> "filepath", kind |-> "PATH"],
       [name |-> "output", kind |-> "PATH"] >>

\* the third argument of _start_subprocess in _run: (name, switch) pairs,
\* None marking a positional argument
flag_map ==
    << <<"compiled_rules", "-C">>,
       <<"count", "-c">>,
       <<"define", "-d">>,
       <<"fast_scan", "-f">>,
       <<"identifier", "-i">>,
       <<"max_rules", "-l">>,
       <<"negate", "-n">>,
       <<"print_meta", "-m">>,
       <<"print_module-data", "-D">>,
       <<"print_namespace", "-e">>,
       <<"print_stats", "-S">>,
       <<"print_strings", "-s">>,
       <<"print_string_length", "-L">>,
       <<"print_tags", "-g">>,
       <<"recursive", "-r">>,
       <<"scan_list", "--scan-list">>,
       <<"stack-size", "-k">>,
       <<"tag", "-t">>,
       <<"threads", "-p">>,
       <<"timeout", "-a">>,
       <<"rules", None>>,
       <<"filepath", None>> >>

Declared == {ARGUMENTS[i].name : i \in 1..Len(ARGUMENTS)}

Optional ==
    {ARGUMENTS[i].name : i \in {j \in 1..Len(ARGUMENTS) :
                                    ARGUMENTS[j].kind # "PATH"}}

kind_of(n) ==
    ARGUMENTS[CHOOSE i \in 1..Len(ARGUMENTS) : ARGUMENTS[i].name = n].kind

\* the resolved value of a PATH argument
PathValue(n) ==
    CASE n = "rules" -> "/w/r.yar"
      [] n = "filepath" -> "/w/f.bin"
      [] OTHER -> "/w/out/report"

\* the value an argument has when the caller sets it
SetValue(n) ==
    CASE kind_of(n) = "BOOL" -> "true"
      [] kind_of(n) = "STR" -> "x"
      [] kind_of(n) = "INT" -> "7"
      [] OTHER -> PathValue(n)

\* the value an argument has when the caller leaves it alone
DefaultValue(n) ==
    CASE kind_of(n) = "BOOL" -> "false"
      [] kind_of(n) \in {"STR", "INT"} -> None
      [] OTHER -> PathValue(n)

\* the validated argument sets: every declared name is bound, at most
\* MaxSetOptions of the optional ones carry a value
ArgumentSets ==
    {[n \in Declared |->
        [kind |-> kind_of(n),
         value |-> IF n \in on THEN SetValue(n) ELSE DefaultValue(n)]] :
     on \in {o \in SUBSET Optional : Cardinality(o) <= MaxSetOptions}}

\* an argument carries a value: a BOOL that is true, anything else not empty
carries(arg) ==
    IF arg.kind = "BOOL" THEN arg.value = "true" ELSE arg.value # None

\* what one pair of the flag map adds to the command line
option_args(pair, arguments) ==
    IF pair[1] \notin DOMAIN arguments THEN <<>>
    ELSE LET arg == arguments[pair[1]]
         IN IF pair[2] = None THEN <<arg.value>>
            ELSE IF ~carries(arg) THEN <<>>
            ELSE IF arg.kind = "BOOL" THEN <<pair[2]>>
            ELSE <<pair[2], arg.value>>

\* _start_subprocess: the arguments after the binary: the switches of the
\* optional pairs in order, then the positional values in order
command_tail(fmap, arguments) ==
    LET opt == SelectSeq(fmap, LAMBDA pr : pr[2] # None)
        pos == SelectSeq(fmap, LAMBDA pr : pr[2] = None)
    IN Flatten([i \in 1..Len(opt) |-> option_args(opt[i], arguments)])
       \o Flatten([i \in 1..Len(pos) |-> option_args(pos[i], arguments)])

\* the members of datashark_core's System enum that name a platform
SupportedSystems == {"Linux", "Darwin", "Windows"}

Platforms == SupportedSystems \cup {"FreeBSD"}

\* what a child can leave behind
ChildOutputs ==
    [stdout : {"", "rule f"}, stderr : {"", "warning"}, status : {0, 1}]

InitScan ==
    /\ InitCommon("scan")
    /\ platform \in Platforms
    /\ binaryOk \in BOOLEAN
    /\ sargs \in ArgumentSets
    /\ inputsExist \in [rules : BOOLEAN, filepath : BOOLEAN]
    /\ cmdline = <<>>
    /\ child = "none"
    /\ childOut = NoOutput
    /\ captured = NoOutput
    /\ reportParent \in BOOLEAN
    /\ reportWrites = 0
    /\ reportFile = None
    /\ IdleGuard /\ IdleExtract /\ IdleHash

\* _run, lines 180-181
ScanResolveOutput ==
    /\ task = "scan" /\ pc = "start"
    /\ pc' = "system"
    /\ UNCHANGED <<task, err, log, coros, scanVars, guardVars, extractVars,
                   hashVars>>

\* _run, lines 183-186
ScanSystem ==
    /\ task = "scan" /\ pc = "system"
    /\ IF platform \notin SupportedSystems
       THEN pc' = "error" /\ err' = "current system is not a valid system"
       ELSE pc' = "spawn" /\ err' = err
    /\ UNCHANGED <<task, log, coros, scanVars, guardVars, extractVars,
                   hashVars>>

\* _run, lines 187-219: the rules and filepath values go to the command
\* line as they are, nothing looks at the paths they name
ScanStartSubprocess ==
    /\ task = "scan" /\ pc = "spawn"
    /\ IF ~binaryOk
       THEN /\ pc' = "error"
            /\ err' = "yara binary not found"
            /\ UNCHANGED <<cmdline, child>>
       ELSE /\ cmdline' = command_tail(flag_map, sargs)
            /\ child' = "running"
            /\ pc' = "communicate"
            /\ err' = err
    /\ UNCHANGED <<task, log, coros, platform, binaryOk, sargs, inputsExist,
                   childOut, captured, reportParent, reportWrites, reportFile,
                   guardVars, extractVars, hashVars>>

\* the child process runs to completion
ChildExit ==
    /\ task = "scan" /\ child = "running"
    /\ child' = "exited"
    /\ childOut' \in ChildOutputs
    /\ UNCHANGED <<commonVars, platform, binaryOk, sargs, inputsExist,
                   cmdline, captured, reportParent, reportWrites, reportFile,
                   guardVars, extractVars, hashVars>>

\* _run, line 223: the await returns the drained streams of the exited child
ScanCommunicate ==
    /\ task = "scan" /\ pc = "communicate" /\ child = "exited"
    /\ captured' = childOut
    /\ pc' = "write"
    /\ UNCHANGED <<task, err, log, coros, platform, binaryOk, sargs,
                   inputsExist, cmdline, child, childOut, reportParent,
                   reportWrites, reportFile, guardVars, extractVars, hashVars>>

\* faulty variant: the second element of the pair is kept
kept_stream_second(cap) == cap.stderr

\* _run, line 223: 'stdout, _ =' keeps the first element of the pair
kept_stream(cap) == cap.stdout

\* _run, line 224: output.write_bytes(stdout); the parent directory is not
\* created, the write raises when it is missing
ScanWriteOutput ==
    /\ task = "scan" /\ pc = "write"
    /\ IF reportParent
       THEN /\ reportFile' = kept_stream(captured)
            /\ reportWrites' = reportWrites + 1
            /\ pc' = "done"
            /\ err' = err
       ELSE /\ pc' = "error"
            /\ err' = "FileNotFoundError"
            /\ UNCHANGED <<reportFile, reportWrites>>
    /\ UNCHANGED <<task, log, coros, platform, binaryOk, sargs, inputsExist,
                   cmdline, child, childOut, captured, reportParent,
                   guardVars, extractVars, hashVars>>

\* ------------------------------------------------------- the specification
Init == InitGuard \/ InitExtract \/ InitHash \/ InitScan

Next ==
    \/ CheckPathTraversal
    \/ ExtractEncodePassword
    \/ ExtractCheckArchive
    \/ ExtractMkdir
    \/ ExtractDispatch
    \/ HashCheckWorkdir
    \/ HashArgument
    \/ HashCreateOutput
    \/ HashWriteHeader
    \/ HashListFiles
    \/ HashFile
    \/ HashClose
    \/ ScanResolveOutput
    \/ ScanSystem
    \/ ScanStartSubprocess
    \/ ChildExit
    \/ ScanCommunicate
    \/ ScanWriteOutput

Spec == Init /\ [][Next]_vars

\* ------------------------------------------------------------- properties
Terminal == pc \in {"done", "error"}

flagged(m) == check_path_traversal(m).flag

\* C1: during an extractor run no member with an absolute name or a '..'
\* segment is written to disk, and when the run has completed every such
\* member has been met by the traversal check (its warning is logged) and
\* skipped, the members after it having been extracted.
C1_TraversalMembersSkipped ==
    task = "extract" =>
        /\ \A m \in disk : ~flagged(m)
        /\ pc = "done" =>
             \A i \in 1..Len(archive.members) :
                flagged(archive.members[i]) =>
                   /\ check_path_traversal(archive.members[i]).warning
                         \in Range(log)
                   /\ \A j \in (i + 1)..Len(archive.members) :
                         ~flagged(archive.members[j]) =>
                            archive.members[j] \in disk

\* C2: when the extractor run has completed on an existing archive, the
\* members below output_dir are exactly the members the traversal check does
\* not flag, and one warning is logged per flagged member.
C2_ExactlyLegitimateExtracted ==
    (task = "extract" /\ pc = "done") =>
        /\ disk = {m \in Range(archive.members) : ~flagged(m)}
        /\ Len(log) = Cardinality({i \in 1..Len(archive.members) :
                                      flagged(archive.members[i])})

\* a '..' segment of n, found by position: two dots between slashes or ends
HasParentSegment(n) ==
    \E i \in 1..(Len(n) - 1) :
        /\ n[i] = "." /\ n[i + 1] = "."
        /\ (i = 1 \/ n[i - 1] = "/")
        /\ (i + 1 = Len(n) \/ n[i + 2] = "/")

\* C3: the traversal check returns true iff the name starts at the root or
\* one of its segments is '..', false for every other name, and does not
\* raise.
C3_TraversalIff ==
    (task = "guard" /\ pc = "done") =>
        /\ gresult = << (gname # <<>> /\ gname[1] = "/")
                        \/ HasParentSegment(gname) >>
        /\ err = None

\* a relative name whose '..' segment is not the first one was flagged
C3_Witness ==
    /\ task = "guard" /\ pc = "done"
    /\ gresult = <<TRUE>>
    /\ gname[1] = "a"
    /\ log = << <<"relative", gname>> >>

ValidRequested == Range(hvalue) \cap algorithms_guaranteed

RegularFiles ==
    IF target.kind = "file" THEN {target.path}
    ELSE {e.path : e \in {x \in target.entries : x.kind = "file"}}

\* C4: hashing a directory with N regular files and M other entries with a
\* valid hasher set completes, and the report holds exactly N rows, one per
\* regular file, each with the file's path relative to the directory.
C4_OneRowPerRegularFile ==
    (task = "hash" /\ workdirOk /\ target.kind = "dir"
       /\ ValidRequested # {} /\ Terminal) =>
        /\ pc = "done"
        /\ Len(outFile.rows) = Cardinality(RegularFiles)
        /\ {r.path : r \in Range(outFile.rows)}
              = {relative_to(f, target.path) : f \in RegularFiles}

\* C5: in every report the header is the valid requested algorithms, each
\* once, in sorted order, followed by 'filepath'; the i-th digest of every
\* row, and of what __process_file returns for a file, is the digest of the
\* i-th header algorithm.
C5_HeaderSortedRowsAligned ==
    (task = "hash" /\ outFile.header # <<>>) =>
        LET algs == SubSeq(outFile.header, 1, Len(outFile.header) - 1)
        IN /\ outFile.header[Len(outFile.header)] = "filepath"
           /\ Range(algs) = ValidRequested
           /\ Len(algs) = Cardinality(ValidRequested)
           /\ \A i \in 1..(Len(algs) - 1) : StrLess(algs[i], algs[i + 1])
           /\ \A r \in Range(outFile.rows) : \E f \in RegularFiles :
                 r.digests = [i \in 1..Len(algs) |-> hexdigest(algs[i], f)]
           /\ \A f \in RegularFiles :
                 process_file(hashers, f)
                    = [i \in 1..Len(algs) |-> hexdigest(algs[i], f)]

\* a header was written although the list of hashers was not in sorted order
C5_Witness ==
    /\ task = "hash" /\ outFile.header # <<>>
    /\ Len(hashers) = 2 /\ hashers # sorted(hashers)
    /\ RegularFiles # {}

\* C6: hashing a single regular file writes one row whose path column is the
\* file's name, extension included.
C6_SingleFileReportsName ==
    (task = "hash" /\ workdirOk /\ target.kind = "file"
       /\ ValidRequested # {} /\ Terminal) =>
        /\ fpath = <<name(target.path)>>
        /\ Len(outFile.rows) = 1
        /\ outFile.rows[1].path = <<name(target.path)>>

\* the command line of C7: the i-th optional argument of ARGUMENTS that
\* carries a value gives the i-th switch of the flag map
claimed_option(i) ==
    LET arg == sargs[ARGUMENTS[i].name]
    IN IF ~carries(arg) THEN <<>>
       ELSE IF arg.kind = "BOOL" THEN <<flag_map[i][2]>>
       ELSE <<flag_map[i][2], arg.value>>

NOptional == Cardinality(Optional)

\* C7: the command line handed to the subprocess is, for every optional
\* argument declared in ARGUMENTS that carries a value, its switch (followed
\* by the value unless it is a BOOL), in flag map order, then the values of
\* 'rules' and 'filepath'.
C7_CommandLineFromArguments ==
    (task = "scan" /\ child # "none") =>
        cmdline = Flatten([i \in 1..NOptional |-> claimed_option(i)])
                    \o <<sargs["rules"].value, sargs["filepath"].value>>

\* C8: a 'hashers' value without a valid algorithm makes the run fail, and
\* when the error is raised no input file has been inspected or opened and
\* neither the output file nor its parent directory has been created.
C8_InvalidHashersBeforeAnyFile ==
    (task = "hash" /\ workdirOk /\ ValidRequested = {}) =>
        /\ pc \in {"start", "args", "error"}
        /\ ~outFile.exists /\ ~outParent
        /\ err = "failed to find a valid hasher!" => inspected = {}

\* C9: a run whose declared input path does not exist fails, and nothing
\* has been produced: no output directory or file, no extracted member, no
\* subprocess, no report.
C9_MissingInputNoOutput ==
    /\ (task = "extract" /\ ~archive.exists) =>
          /\ ~outDir /\ disk = {} /\ coros = <<>>
          /\ Terminal => pc = "error"
    /\ (task = "hash" /\ workdirOk /\ target.kind = "missing") =>
          /\ ~outFile.exists /\ ~outParent
          /\ Terminal => pc = "error"
    /\ (task = "scan" /\ (~inputsExist.rules \/ ~inputsExist.filepath)) =>
          /\ child = "none" /\ reportWrites = 0 /\ reportFile = None
          /\ Terminal => pc = "error"

\* the parts of C10 about the order of events: the output file is written
\* at most once, only when the child has exited and its streams have been
\* returned, with the bytes of its standard output; on an unsupported
\* platform the run fails with no child and no output file.
C10_Order ==
    task = "scan" =>
        /\ reportWrites <= 1
        /\ reportWrites = 1 =>
              /\ child = "exited" /\ captured = childOut
              /\ reportFile = childOut.stdout
        /\ reportWrites = 0 => reportFile = None
        /\ platform \notin SupportedSystems =>
              /\ pc \in {"start", "system", "error"}
              /\ child = "none" /\ reportWrites = 0

====
